---- MODULE Spec2Model ----
(***************************************************************************)
(* Model of custom_components/jvc_projectors/remote.py: the platform       *)
(* bootstrap (setup_platform) and the remote entity adapter (JVCRemote).   *)
(*                                                                         *)
(* Python strings are sequences of symbols, so that the substring tests    *)
(* of the source ("NZ" in family, "hdr" in content type, "on" in theater   *)
(* optimizer) are computed and not assumed.  The projector library is the  *)
(* environment: every call into it either returns a reply or raises.       *)
(***************************************************************************)
EXTENDS Integers, Sequences, FiniteSets, TLC

VARIABLES
    self,       \* the JVCRemote entity (NoEntity until it is constructed)
    added,      \* the entity lists handed to add_entities, in call order
    calls,      \* client calls made by the operation that ran last, in order
    raised,     \* the client call whose exception the operation that ran last
                \* propagated, "none" when it returned normally
    lastop,     \* name of the operation that ran last
    polls,      \* number of update() calls so far
    lastread    \* per attribute, the last value a getter returned normally

vars == <<self, added, calls, raised, lastop, polls, lastread>>

\* Number of poll cycles explored.
MaxPolls == 2

----------------------------------------------------------------------------
\* Strings

EmptyStr == <<>>

NZ == <<"N", "Z">>
NX == <<"N", "X">>
hdr == <<"h", "d", "r">>
hlg == <<"h", "l", "g">>
on == <<"o", "n">>

\* Python's  sub in s  on strings.
In(sub, s) ==
    \E i \in 1..(Len(s) - Len(sub) + 1) : SubSeq(s, i, i + Len(sub) - 1) = sub

Range(s) == {s[i] : i \in 1..Len(s)}

Count(s, x) == Cardinality({i \in 1..Len(s) : s[i] = x})

\* Position of the first x in s, 0 when absent.
Pos(s, x) ==
    IF x \in Range(s) THEN CHOOSE i \in 1..Len(s) : s[i] = x /\ \A j \in 1..(i - 1) : s[j] # x
    ELSE 0

----------------------------------------------------------------------------
\* The environment: model families, and what the projector answers.

\* model_family values: an NZ, an NX, a family with neither tag, one with both.
Families ==
    { <<"N", "Z", "8">>, <<"N", "X", "5">>, <<"N", "P", "5">>, <<"N", "X", "N", "Z">> }

ContentTypes == { <<"s", "d", "r">>, hdr, hlg }

TheaterStates == { on, <<"o", "f", "f">> }

Commands == { <<"menu">>, <<"power", "off">> }

Digits == <<"1", "2", "3", "4", "5", "6", "7", "8", "9">>

\* The getters whose reply is an opaque string.
PlainGetters ==
    { "get_install_mode", "get_input_mode", "get_color_mode", "get_input_level",
      "get_picture_mode", "get_laser_mode", "get_hdr_processing", "get_lamp_power",
      "get_eshift_mode", "get_hdr_data" }

Getters ==
    PlainGetters \cup {"is_on", "is_ll_on", "get_content_type", "get_theater_optimizer_state"}

\* What each getter returns in poll n when the projector is in condition r.
\* Every string reply ends in the number of its poll ("hdr1", "on2"), an opaque
\* reply names its getter too, and the low-latency flag flips with every poll,
\* so that a value read in this poll differs from the value read in the poll
\* before it and from the value read by another getter.
DeviceReply(r, n) ==
    [g \in Getters |->
        CASE g = "is_on" -> r.power
          [] g = "is_ll_on" -> (n % 2 = 1)
          [] g = "get_content_type" -> r.ct \o <<Digits[n]>>
          [] g = "get_theater_optimizer_state" -> r.to \o <<Digits[n]>>
          [] OTHER -> <<g, Digits[n]>>]

Conditions == [power : BOOLEAN, ct : ContentTypes, to : TheaterStates]

\* The client call that raises when it is made ("none": nothing raises).
Faults == Getters \cup {"none"}

----------------------------------------------------------------------------
\* Calls into the client.  A context carries the calls made so far and the
\* call whose exception is propagating ("none" when none is); once one is, the
\* rest of the method is skipped.

Raising(c) == c.exc # "none"

Invoke(c, method, bad) ==
    IF Raising(c) THEN c
    ELSE [c EXCEPT !.calls = Append(@, method),
                   !.exc = IF method = bad THEN method ELSE "none"]

\* Assign, except that a getter that raises resets its attribute to the initial value.
Assign_reset(c, field, getter, rep, bad) ==
    LET d == Invoke(c, getter, bad)
    IN  IF Raising(c) THEN c
        ELSE IF Raising(d)
             THEN [d EXCEPT !.self[field] =
                        IF field \in {"state", "lowlatency_enabled"} THEN FALSE ELSE EmptyStr]
        ELSE [d EXCEPT !.self[field] = rep[getter], !.read[field] = rep[getter]]

\* The statement  self._<field> = self.jvc_client.<getter>()
Assign(c, field, getter, rep, bad) ==
    LET d == Invoke(c, getter, bad)
    IN  IF Raising(c) \/ Raising(d) THEN d
        ELSE [d EXCEPT !.self[field] = rep[getter], !.read[field] = rep[getter]]

----------------------------------------------------------------------------
\* JVCRemote

NoEntity == [model_family |-> EmptyStr, absent |-> TRUE]

Fields ==
    { "lowlatency_enabled", "installation_mode", "picture_mode", "input_mode",
      "laser_mode", "eshift", "color_mode", "input_level", "content_type",
      "hdr_processing", "lamp_power", "hdr_data", "theater_optimizer" }

\* JVCRemote.__init__ (name and host are never written again and are left out)
JVCRemote(family) ==
    [ state |-> FALSE,
      lowlatency_enabled |-> FALSE,
      installation_mode |-> EmptyStr,
      picture_mode |-> EmptyStr,
      input_mode |-> EmptyStr,
      laser_mode |-> EmptyStr,
      eshift |-> EmptyStr,
      color_mode |-> EmptyStr,
      input_level |-> EmptyStr,
      content_type |-> EmptyStr,
      hdr_processing |-> EmptyStr,
      lamp_power |-> EmptyStr,
      hdr_data |-> EmptyStr,
      theater_optimizer |-> EmptyStr,
      model_family |-> family ]

\* NZView with the laser mode reported from the lamp power.
NZView_lamp(s) ==
    [ power_state |-> s.state,
      picture_mode |-> s.picture_mode,
      content_type |-> s.content_type,
      hdr_data |-> s.hdr_data,
      hdr_processing |-> s.hdr_processing,
      theater_optimizer |-> In(on, s.theater_optimizer),
      low_latency |-> s.lowlatency_enabled,
      input_mode |-> s.input_mode,
      laser_mode |-> s.lamp_power,
      input_level |-> s.input_level,
      color_mode |-> s.color_mode,
      installation_mode |-> s.installation_mode,
      eshift |-> s.eshift,
      model |-> s.model_family ]

\* The view returned for a family containing "NZ".
NZView(s) ==
    [ power_state |-> s.state,
      picture_mode |-> s.picture_mode,
      content_type |-> s.content_type,
      hdr_data |-> s.hdr_data,
      hdr_processing |-> s.hdr_processing,
      theater_optimizer |-> In(on, s.theater_optimizer),
      low_latency |-> s.lowlatency_enabled,
      input_mode |-> s.input_mode,
      laser_mode |-> s.laser_mode,
      input_level |-> s.input_level,
      color_mode |-> s.color_mode,
      installation_mode |-> s.installation_mode,
      eshift |-> s.eshift,
      model |-> s.model_family ]

\* NXView without the e-shift entry.
NXView_noeshift(s) ==
    [ power_state |-> s.state,
      picture_mode |-> s.picture_mode,
      hdr_data |-> s.hdr_data,
      low_latency |-> s.lowlatency_enabled,
      input_mode |-> s.input_mode,
      lamp_power |-> s.lamp_power,
      input_level |-> s.input_level,
      installation_mode |-> s.installation_mode,
      color_mode |-> s.color_mode,
      model |-> s.model_family ]

\* The view returned for a family containing "NX" and not "NZ".
NXView(s) ==
    [ power_state |-> s.state,
      picture_mode |-> s.picture_mode,
      hdr_data |-> s.hdr_data,
      low_latency |-> s.lowlatency_enabled,
      input_mode |-> s.input_mode,
      lamp_power |-> s.lamp_power,
      input_level |-> s.input_level,
      installation_mode |-> s.installation_mode,
      color_mode |-> s.color_mode,
      eshift |-> s.eshift,
      model |-> s.model_family ]

\* The view returned for every other family.
BaseView(s) ==
    [ power_state |-> s.state,
      picture_mode |-> s.picture_mode,
      low_latency |-> s.lowlatency_enabled,
      input_mode |-> s.input_mode,
      lamp_power |-> s.lamp_power,
      input_level |-> s.input_level,
      color_mode |-> s.color_mode,
      installation_mode |-> s.installation_mode,
      model |-> s.model_family ]

\* JVCRemote.extra_state_attributes
extra_state_attributes(s) ==
    IF In(NZ, s.model_family) THEN NZView(s)
    ELSE IF In(NX, s.model_family) THEN NXView(s)
    ELSE BaseView(s)

\* JVCRemote.is_on
is_on(s) == s.state

\* HdrContent that forgets "hlg".
HdrContent_hdronly(content_type) == In(hdr, content_type)

\* HdrContent that always holds.
HdrContent_always(content_type) == TRUE

\* any(x in self._content_type for x in ["hdr", "hlg"])
HdrContent(content_type) == \E x \in {hdr, hlg} : In(x, content_type)

\* The six common attributes.
UpdateCommon(c, rep, bad) ==
    LET c1 == Assign(c, "lowlatency_enabled", "is_ll_on", rep, bad)
        c2 == Assign(c1, "installation_mode", "get_install_mode", rep, bad)
        c3 == Assign(c2, "input_mode", "get_input_mode", rep, bad)
        c4 == Assign(c3, "color_mode", "get_color_mode", rep, bad)
        c5 == Assign(c4, "input_level", "get_input_level", rep, bad)
    IN  Assign(c5, "picture_mode", "get_picture_mode", rep, bad)

\* NZ specifics
UpdateNZ(c, rep, bad) ==
    IF In(NZ, c.self.model_family)
    THEN LET c1 == Assign(c, "content_type", "get_content_type", rep, bad)
             c2 == Assign(c1, "laser_mode", "get_laser_mode", rep, bad)
         IN  IF HdrContent(c2.self.content_type)
             THEN LET c3 == Assign(c2, "hdr_processing", "get_hdr_processing", rep, bad)
                  IN  Assign(c3, "theater_optimizer", "get_theater_optimizer_state", rep, bad)
             ELSE c2
    ELSE c

\* UpdateLamp that reads the lamp power of the NX families only.
UpdateLamp_nx(c, rep, bad) ==
    IF In(NX, c.self.model_family)
    THEN Assign(c, "lamp_power", "get_lamp_power", rep, bad)
    ELSE c

\* Get lamp power if not NZ
UpdateLamp(c, rep, bad) ==
    IF ~In(NZ, c.self.model_family)
    THEN Assign(c, "lamp_power", "get_lamp_power", rep, bad)
    ELSE c

\* nx and nz have these things, others may not
UpdateNXNZ(c, rep, bad) ==
    IF \E x \in {NX, NZ} : In(x, c.self.model_family)
    THEN LET c1 == Assign(c, "eshift", "get_eshift_mode", rep, bad)
         IN  Assign(c1, "hdr_data", "get_hdr_data", rep, bad)
    ELSE c

\* The attribute reads of one poll.
PollAttributes(c, rep, bad) ==
    UpdateNXNZ(UpdateLamp(UpdateNZ(UpdateCommon(c, rep, bad), rep, bad), rep, bad), rep, bad)

\* IfOn that reads the attributes whatever the power state.
IfOn_always(c, rep, bad) == PollAttributes(c, rep, bad)

\* if self._state:
IfOn(c, rep, bad) ==
    IF ~Raising(c) /\ c.self.state THEN PollAttributes(c, rep, bad) ELSE c

\* JVCRemote.update, on entity s with last-read record rd.
DoUpdate(s, rd, rep, bad) ==
    LET c0 == [self |-> s, read |-> rd, calls |-> <<>>, exc |-> "none"]
    IN  IfOn(Assign(c0, "state", "is_on", rep, bad), rep, bad)

\* DoTurnOn that marks the projector on even when power_on raises.
DoTurnOn_always(s, bad) ==
    LET c == Invoke([self |-> s, calls |-> <<>>, exc |-> "none"], "power_on", bad)
    IN  [c EXCEPT !.self.state = TRUE]

\* JVCRemote.turn_on
DoTurnOn(s, bad) ==
    LET c == Invoke([self |-> s, calls |-> <<>>, exc |-> "none"], "power_on", bad)
    IN  IF Raising(c) THEN c ELSE [c EXCEPT !.self.state = TRUE]

\* DoTurnOff that also forgets the content type.
DoTurnOff_clear(s, bad) ==
    LET c == Invoke([self |-> s, calls |-> <<>>, exc |-> "none"], "power_off", bad)
    IN  IF Raising(c) THEN c ELSE [c EXCEPT !.self.state = FALSE, !.self.content_type = EmptyStr]

\* JVCRemote.turn_off
DoTurnOff(s, bad) ==
    LET c == Invoke([self |-> s, calls |-> <<>>, exc |-> "none"], "power_off", bad)
    IN  IF Raising(c) THEN c ELSE [c EXCEPT !.self.state = FALSE]

\* JVCRemote.send_command
DoSendCommand(s, command, bad) ==
    Invoke([self |-> s, calls |-> <<>>, exc |-> "none"], "exec_command", bad)

\* DoSetup that registers the entity before opening the connection.
DoSetup_early(family, bad) ==
    LET c0 == [added |-> <<>>, calls |-> <<>>, exc |-> "none"]
        c1 == Invoke(c0, "JVCProjector", bad)
        c2 == IF Raising(c1) THEN c1
              ELSE [c1 EXCEPT !.calls = Append(@, "add_entities"),
                              !.added = Append(@, <<JVCRemote(family)>>)]
    IN  Invoke(c2, "open_connection", bad)

\* setup_platform
DoSetup(family, bad) ==
    LET c0 == [added |-> <<>>, calls |-> <<>>, exc |-> "none"]
        c1 == Invoke(c0, "JVCProjector", bad)
        c2 == Invoke(c1, "open_connection", bad)
    IN  IF Raising(c2) THEN c2
        ELSE [c2 EXCEPT !.calls = Append(@, "add_entities"),
                        !.added = Append(@, <<JVCRemote(family)>>)]

----------------------------------------------------------------------------
\* The state machine

Init ==
    /\ self = NoEntity
    /\ added = <<>>
    /\ calls = <<>>
    /\ raised = "none"
    /\ lastop = "init"
    /\ polls = 0
    /\ lastread = [f \in Fields \cup {"state"} |-> IF f \in {"state", "lowlatency_enabled"} THEN FALSE ELSE EmptyStr]

HasEntity == added # <<>>

setup_platform ==
    /\ lastop = "init"
    /\ \E family \in Families, bad \in {"none", "JVCProjector", "open_connection"} :
        LET c == DoSetup(family, bad)
        IN  /\ added' = c.added
            /\ self' = IF c.added = <<>> THEN NoEntity ELSE c.added[1][1]
            /\ calls' = c.calls
            /\ raised' = c.exc
    /\ lastop' = "setup_platform"
    /\ UNCHANGED <<polls, lastread>>

update ==
    /\ HasEntity
    /\ polls < MaxPolls
    /\ \E r \in Conditions, bad \in Faults :
        LET c == DoUpdate(self, lastread, DeviceReply(r, polls + 1), bad)
        IN  /\ self' = c.self
            /\ lastread' = c.read
            /\ calls' = c.calls
            /\ raised' = c.exc
    /\ polls' = polls + 1
    /\ lastop' = "update"
    /\ UNCHANGED added

turn_on ==
    /\ HasEntity
    /\ \E bad \in {"none", "power_on"} :
        LET c == DoTurnOn(self, bad)
        IN  /\ self' = c.self
            /\ calls' = c.calls
            /\ raised' = c.exc
    /\ lastop' = "turn_on"
    /\ UNCHANGED <<added, polls, lastread>>

turn_off ==
    /\ HasEntity
    /\ \E bad \in {"none", "power_off"} :
        LET c == DoTurnOff(self, bad)
        IN  /\ self' = c.self
            /\ calls' = c.calls
            /\ raised' = c.exc
    /\ lastop' = "turn_off"
    /\ UNCHANGED <<added, polls, lastread>>

send_command ==
    /\ HasEntity
    /\ \E command \in Commands, bad \in {"none", "exec_command"} :
        LET c == DoSendCommand(self, command, bad)
        IN  /\ self' = c.self
            /\ calls' = c.calls
            /\ raised' = c.exc
    /\ lastop' = "send_command"
    /\ UNCHANGED <<added, polls, lastread>>

Next == setup_platform \/ update \/ turn_on \/ turn_off \/ send_command

Spec == Init /\ [][Next]_vars

----------------------------------------------------------------------------
\* Vocabulary of the properties.  None of it uses the operators of the entity:
\* the substring tests and the expected schedule are written out again here.

HasNZ(s) == In(NZ, s.model_family)
HasNX(s) == In(NX, s.model_family)
HdrOrHlg(content) == In(hdr, content) \/ In(hlg, content)

\* g was called by the operation that ran last, and returned normally.
Returned(g) == g \in Range(calls) /\ raised # g

\* The last operation was a poll in which the projector reported on and no
\* getter raised.
FullPoll == lastop = "update" /\ raised = "none" /\ Returned("is_on") /\ lastread.state

\* The last operation was a poll of an NZ family that obtained its content type.
NZPollWithContent ==
    /\ lastop = "update"
    /\ HasNZ(self)
    /\ Returned("get_content_type")

\* The values the projector can return from getter g in poll n.
Replies(g, n) == {DeviceReply(r, n)[g] : r \in Conditions}

\* The attribute each getter is stored in.
FieldOf ==
    [g \in Getters |->
        CASE g = "is_on" -> "state"
          [] g = "is_ll_on" -> "lowlatency_enabled"
          [] g = "get_install_mode" -> "installation_mode"
          [] g = "get_input_mode" -> "input_mode"
          [] g = "get_color_mode" -> "color_mode"
          [] g = "get_input_level" -> "input_level"
          [] g = "get_picture_mode" -> "picture_mode"
          [] g = "get_content_type" -> "content_type"
          [] g = "get_laser_mode" -> "laser_mode"
          [] g = "get_hdr_processing" -> "hdr_processing"
          [] g = "get_theater_optimizer_state" -> "theater_optimizer"
          [] g = "get_lamp_power" -> "lamp_power"
          [] g = "get_eshift_mode" -> "eshift"
          [] g = "get_hdr_data" -> "hdr_data"]

\* The order in which a poll schedules its getters.
Schedule ==
    << "is_on", "is_ll_on", "get_install_mode", "get_input_mode", "get_color_mode",
       "get_input_level", "get_picture_mode", "get_content_type", "get_laser_mode",
       "get_hdr_processing", "get_theater_optimizer_state", "get_lamp_power",
       "get_eshift_mode", "get_hdr_data" >>

CommonGetters ==
    { "is_ll_on", "get_install_mode", "get_input_mode", "get_color_mode",
      "get_input_level", "get_picture_mode" }

FamilyGetters == Getters \ (CommonGetters \cup {"is_on"})

\* cs calls getters of the schedule only, each at most once, in schedule order.
InScheduleOrder(cs) ==
    /\ Range(cs) \subseteq Getters
    /\ \A i, j \in 1..Len(cs) : i < j => Pos(Schedule, cs[i]) < Pos(Schedule, cs[j])

NZKeys ==
    { "power_state", "picture_mode", "content_type", "hdr_data", "hdr_processing",
      "theater_optimizer", "low_latency", "input_mode", "laser_mode", "input_level",
      "color_mode", "installation_mode", "eshift", "model" }

NXKeys ==
    { "power_state", "picture_mode", "hdr_data", "low_latency", "input_mode",
      "lamp_power", "input_level", "installation_mode", "color_mode", "eshift", "model" }

BaseKeys ==
    { "power_state", "picture_mode", "low_latency", "input_mode", "lamp_power",
      "input_level", "color_mode", "installation_mode", "model" }

----------------------------------------------------------------------------
\* C1: in every reachable state of the entity, aborted polls included, the keys
\* of extra_state_attributes are the NZ key set when the family contains "NZ",
\* the NX key set when it contains "NX" and not "NZ", the base key set otherwise.
C1_KeySets ==
    HasEntity =>
        DOMAIN extra_state_attributes(self) =
            IF HasNZ(self) THEN NZKeys
            ELSE IF HasNX(self) THEN NXKeys
            ELSE BaseKeys

\* An NX family after a poll that a getter aborted half way.
C1_Witness ==
    /\ lastop = "update"
    /\ raised = "get_eshift_mode"
    /\ HasNX(self) /\ ~HasNZ(self)
    /\ self.lamp_power # EmptyStr

----------------------------------------------------------------------------
\* C2 as claimed: after every turn_on() call, whether power_on returned or
\* raised, is_on is true and power_on was the only client call.
C2_Original ==
    lastop = "turn_on" => is_on(self) /\ calls = <<"power_on">>

\* C2 as amended: turn_on() makes exactly one client call, power_on, and no
\* confirmation query; when power_on returns normally is_on is true afterwards,
\* and when it raises the exception propagates and the entity is unchanged.
C2_TurnOn ==
    [][lastop' = "turn_on" =>
        /\ calls' = <<"power_on">>
        /\ raised' = "none" => is_on(self')
        /\ raised' # "none" => raised' = "power_on" /\ self' = self]_vars

\* turn_on() returned normally although the last poll saw the projector off.
C2_Witness ==
    /\ lastop = "turn_on"
    /\ raised = "none"
    /\ polls > 0
    /\ ~lastread.state
    /\ is_on(self)

----------------------------------------------------------------------------
\* C3: when update() runs and is_on() returns false, no attribute getter is
\* invoked in that cycle, every cached non-power attribute keeps the value it
\* had before the call, and the cached power state is false.
C3_OffPoll ==
    [][(lastop' = "update" /\ raised' # "is_on" /\ ~lastread'.state) =>
        /\ calls' = <<"is_on">>
        /\ \A f \in Fields : self'[f] = self[f]
        /\ self'.model_family = self.model_family
        /\ self'.state = FALSE]_vars

\* An off poll of an NZ entity that still shows what an earlier poll read.
C3_Witness ==
    /\ lastop = "update"
    /\ raised = "none"
    /\ ~lastread.state
    /\ ~self.state
    /\ polls = 2
    /\ HasNZ(self)
    /\ self.picture_mode = <<"get_picture_mode", "1">>
    /\ self.hdr_data = <<"get_hdr_data", "1">>
    /\ self.lowlatency_enabled

----------------------------------------------------------------------------
\* C4: in an update() of an NZ family whose content type, as obtained in that
\* cycle, contains neither "hdr" nor "hlg", get_hdr_processing and
\* get_theater_optimizer_state are called zero times.
C4_HdrGuard ==
    (NZPollWithContent /\ ~HdrOrHlg(lastread.content_type)) =>
        /\ Count(calls, "get_hdr_processing") = 0
        /\ Count(calls, "get_theater_optimizer_state") = 0

\* Non-HDR content in this poll, HDR content cached from the poll before.
C4_Witness ==
    /\ NZPollWithContent
    /\ raised = "none"
    /\ polls = 2
    /\ self.content_type = <<"s", "d", "r", "2">>
    /\ self.hdr_processing = <<"get_hdr_processing", "1">>

----------------------------------------------------------------------------
----------------------------------------------------------------------------
\* C6: when a getter raises during update(), the exception propagates, the
\* getters are called in schedule order and the raising one is the last call,
\* the attribute of the raising getter and of every getter not called keep
\* their previous values, and the attribute of every getter called before it
\* holds a value read in this cycle (the power state, read first, is true).
C6_AbortedPoll ==
    [][(lastop' = "update" /\ raised' # "none") =>
        /\ InScheduleOrder(calls')
        /\ calls'[Len(calls')] = raised'
        /\ Count(calls', raised') = 1
        /\ \A g \in Getters :
            IF g \in Range(calls') /\ g # raised'
            THEN /\ self'[FieldOf[g]] \in Replies(g, polls')
                 /\ self'[FieldOf[g]] = lastread'[FieldOf[g]]
            ELSE self'[FieldOf[g]] = self[FieldOf[g]]
        /\ raised' # "is_on" => self'.state
        /\ self'.model_family = self.model_family]_vars

\* The second poll aborted at get_color_mode: the input mode is this poll's,
\* the colour mode and the picture mode are still the first poll's.
C6_Witness ==
    /\ lastop = "update"
    /\ raised = "get_color_mode"
    /\ polls = 2
    /\ self.state
    /\ self.input_mode = <<"get_input_mode", "2">>
    /\ self.color_mode = <<"get_color_mode", "1">>
    /\ self.picture_mode = <<"get_picture_mode", "1">>

----------------------------------------------------------------------------
\* C7 as claimed: once the entity has been polled, every cached value, the
\* power state included, equals the value the projector last returned for it to
\* a poll.
C7_Original ==
    (HasEntity /\ polls > 0) =>
        /\ self.state = lastread.state
        /\ \A f \in Fields : self[f] = lastread[f]

\* C7 as amended: every cached attribute other than the power state equals the
\* value its getter last returned to a poll (its initial value before that) and
\* is changed by no operation other than update; the power state is changed
\* only by update and by a turn_on or turn_off whose client call returns
\* normally, which set it to true and to false without a poll.
C7_Snapshot ==
    /\ [](HasEntity => \A f \in Fields : self[f] = lastread[f])
    /\ [][(HasEntity /\ lastop' # "update") =>
            /\ \A f \in Fields : self'[f] = self[f]
            /\ self'.model_family = self.model_family
            /\ lastread' = lastread
            /\ self'.state # self.state =>
                /\ lastop' \in {"turn_on", "turn_off"}
                /\ raised' = "none"
                /\ self'.state = (lastop' = "turn_on")]_vars

\* turn_off() after a poll that saw the projector on: the power state no longer
\* is what the poll read, the attributes still are.
C7_Witness ==
    /\ lastop = "turn_off"
    /\ raised = "none"
    /\ lastread.state
    /\ ~self.state
    /\ self.content_type # EmptyStr
    /\ self.content_type = lastread.content_type

----------------------------------------------------------------------------
\* C8: setup_platform constructs one client, opens its connection, and only when
\* that returned normally calls add_entities, once, with one entity; when the
\* construction or open_connection raises, nothing is registered and neither
\* call is made again.
C8_Setup ==
    /\ Len(added) <= 1
    /\ \A i \in 1..Len(added) : Len(added[i]) = 1 /\ added[i][1].state = FALSE
    /\ lastop = "init" => added = <<>>
    /\ lastop = "setup_platform" =>
        /\ Count(calls, "JVCProjector") = 1
        /\ Count(calls, "open_connection") <= 1
        /\ Count(calls, "add_entities") = Len(added)
        /\ raised = "none" => calls = <<"JVCProjector", "open_connection", "add_entities">>
        /\ raised # "none" => added = <<>> /\ calls[Len(calls)] = raised

\* Both outcomes of setup_platform are states of the model; this is the one in
\* which the entity is registered.
C8_Witness ==
    /\ lastop = "setup_platform"
    /\ raised = "none"
    /\ Len(added) = 1
    /\ self = added[1][1]

----------------------------------------------------------------------------
\* C9: in an update() where the projector reports on and no getter raises,
\* get_content_type and get_laser_mode are invoked iff the family contains
\* "NZ", get_lamp_power iff it does not, get_eshift_mode and get_hdr_data iff it
\* contains "NX" or "NZ"; the six common getters are each invoked once, before
\* every family-specific getter.
C9_Dispatch ==
    FullPoll =>
        /\ "get_content_type" \in Range(calls) <=> HasNZ(self)
        /\ "get_laser_mode" \in Range(calls) <=> HasNZ(self)
        /\ "get_lamp_power" \in Range(calls) <=> ~HasNZ(self)
        /\ "get_eshift_mode" \in Range(calls) <=> (HasNX(self) \/ HasNZ(self))
        /\ "get_hdr_data" \in Range(calls) <=> (HasNX(self) \/ HasNZ(self))
        /\ \A g \in Getters : Count(calls, g) <= 1
        /\ \A g \in CommonGetters : Count(calls, g) = 1
        /\ \A g \in CommonGetters, h \in FamilyGetters :
            h \in Range(calls) => Pos(calls, g) < Pos(calls, h)

\* A full poll of the family that contains both "NX" and "NZ".
C9_Witness ==
    /\ FullPoll
    /\ HasNX(self) /\ HasNZ(self)
    /\ "get_laser_mode" \in Range(calls)
    /\ "get_eshift_mode" \in Range(calls)

----------------------------------------------------------------------------
\* The getter behind each key of extra_state_attributes.
GetterOf ==
    [k \in NZKeys \cup NXKeys \cup BaseKeys |->
        CASE k = "power_state" -> "is_on"
          [] k = "picture_mode" -> "get_picture_mode"
          [] k = "content_type" -> "get_content_type"
          [] k = "hdr_data" -> "get_hdr_data"
          [] k = "hdr_processing" -> "get_hdr_processing"
          [] k = "theater_optimizer" -> "get_theater_optimizer_state"
          [] k = "low_latency" -> "is_ll_on"
          [] k = "input_mode" -> "get_input_mode"
          [] k = "laser_mode" -> "get_laser_mode"
          [] k = "lamp_power" -> "get_lamp_power"
          [] k = "input_level" -> "get_input_level"
          [] k = "color_mode" -> "get_color_mode"
          [] k = "installation_mode" -> "get_install_mode"
          [] k = "eshift" -> "get_eshift_mode"
          [] k = "model" -> "none"]

\* What key k shows of a value v its getter returned.
Shown(k, v) == IF k = "theater_optimizer" THEN In(on, v) ELSE v

\* C10: after an update() that completes without an exception with the
\* projector reported on, every entry of extra_state_attributes other than
\* model shows the value its getter returned in that cycle, except
\* hdr_processing and theater_optimizer of an NZ family whose content type of
\* that cycle contains neither "hdr" nor "hlg": their getters were not called
\* and they show the values last read (the initial values if never read).
C10_ViewAgreesWithPoll ==
    FullPoll =>
        LET view == extra_state_attributes(self)
        IN  \A k \in DOMAIN view \ {"model"} :
                IF /\ k \in {"hdr_processing", "theater_optimizer"}
                   /\ HasNZ(self)
                   /\ ~HdrOrHlg(view["content_type"])
                THEN /\ ~Returned(GetterOf[k])
                     /\ view[k] = Shown(k, lastread[FieldOf[GetterOf[k]]])
                ELSE /\ Returned(GetterOf[k])
                     /\ \E v \in Replies(GetterOf[k], polls) :
                            /\ v = lastread[FieldOf[GetterOf[k]]]
                            /\ view[k] = Shown(k, v)

\* SDR content with the theater optimizer still reported on from the poll
\* before.
C10_Witness ==
    /\ FullPoll
    /\ HasNZ(self)
    /\ polls = 2
    /\ extra_state_attributes(self)["content_type"] = <<"s", "d", "r", "2">>
    /\ extra_state_attributes(self)["theater_optimizer"] = TRUE
    /\ extra_state_attributes(self)["laser_mode"] = <<"get_laser_mode", "2">>

====
